---------------------------- MODULE Spec2Model ----------------------------
(***************************************************************************)
(* Three-player Othello: the board (src/board.py), the depth-limited       *)
(* minimax search (src/minimax.py) and the callers of the board            *)
(* (src/main.py).                                                          *)
(*                                                                         *)
(* Python values are modelled as follows.  A grid is a function            *)
(* row -> column -> cell with rows and columns numbered from 0, as the     *)
(* list of lists Board.board.  A Python list is a sequence.  A tuple       *)
(* (row, column) is the sequence <<row, column>>.  A value that may be     *)
(* None is a sequence of length at most one: <<>> is None, <<v>> is v.     *)
(***************************************************************************)
EXTENDS Integers, Sequences, FiniteSets, TLC

VARIABLES
    board,      \* Board.board of the board object the caller owns
    phase,      \* "new" after Board(), "play" after setup_three_players(),
                \* "over" when Game.start returned; "direct" for a board
                \* that only sees direct calls
    turn,       \* index in Game.players of the player whose turn it is
    nturns,     \* turns played so far by the game loop
    last,       \* the last call made on the board and what it returned
    stack,      \* minimax: the activation records, innermost last
    copies,     \* minimax: the deep copies made for pass calls, newest last
    ret,        \* minimax: the value being returned to the caller, or None
    root        \* minimax: the arguments of the outermost call

vars == <<board, phase, turn, nturns, last, stack, copies, ret, root>>

----------------------------------------------------------------------------
(* Program constants *)

EMPTY == -1

Rows == 9

Columns == 9

NumPlayers == 3

(* Bounds of the model *)

\* game-loop turns played before the board is probed
MaxTurns == 2

\* largest depth a search is started with
MaxDepth == 6

\* largest depth a search is started with where the searches are checked
\* together with the callers of the board
MaxDepthShort == 2

\* largest depth a search is started with where termination and the
\* starting position are checked
MaxDepthFair == 3

\* iterations of a game played to its end in which the player may return
\* any legal move
MaxFreeTurns == 1

Players == 0 .. (NumPlayers - 1)

RowIdx == 0 .. (Rows - 1)

ColIdx == 0 .. (Columns - 1)

Cells == RowIdx \X ColIdx

\* the arguments a caller may hand to place: every cell and one step
\* outside the grid on each side
ArgRows == -1 .. Rows

ArgCols == -1 .. Columns

None == << >>

Some(v) == << v >>

----------------------------------------------------------------------------
(* Python list indexing: a negative index counts from the end, an index    *)
(* outside -n .. n-1 raises IndexError.                                    *)

PyIndexOk(i, n) == (-n <= i) /\ (i < n)

PyIndex(i, n) == IF i < 0 THEN i + n ELSE i

----------------------------------------------------------------------------
(* Board *)

NewBoard == [r \in RowIdx |-> [c \in ColIdx |-> EMPTY]]

\* a faulty variant of setup_three_players: the last disc of player 2 is
\* put on (4,5) a second time instead of (5,4)
SetupRepeatsCell(b) ==
    [b EXCEPT ![3][3] = 0, ![3][5] = 0, ![4][4] = 0,
              ![3][4] = 1, ![5][3] = 1, ![5][5] = 1,
              ![4][3] = 2, ![4][5] = 2, ![4][5] = 2]

\* a faulty variant of setup_three_players: the cells of player 2 are
\* given to player 0
SetupWithoutThird(b) ==
    [b EXCEPT ![3][3] = 0, ![3][5] = 0, ![4][4] = 0,
              ![3][4] = 1, ![5][3] = 1, ![5][5] = 1,
              ![4][3] = 0, ![4][5] = 0, ![5][4] = 0]

setup_three_players(b) ==
    [b EXCEPT ![3][3] = 0, ![3][5] = 0, ![4][4] = 0,
              ![3][4] = 1, ![5][3] = 1, ![5][5] = 1,
              ![4][3] = 2, ![4][5] = 2, ![5][4] = 2]

OutOfBounds(row, column) ==
    row < 0 \/ row >= Rows \/ column < 0 \/ column >= Columns

\* itertools.product([-1, 0, 1], [-1, 0, 1]), in its order
Directions ==
    << <<-1, -1>>, <<-1, 0>>, <<-1, 1>>,
       <<0, -1>>,  <<0, 0>>,  <<0, 1>>,
       <<1, -1>>,  <<1, 0>>,  <<1, 1>> >>

\* a faulty variant of Ray: the discs met before an empty cell are kept
RECURSIVE RayKeepsOnEmpty(_, _, _, _, _, _, _)
RayKeepsOnEmpty(b, new_row, new_col, dy, dx, player, visited_discs) ==
    IF OutOfBounds(new_row, new_col) THEN << >>
    ELSE IF b[new_row][new_col] = player THEN visited_discs
    ELSE IF b[new_row][new_col] = EMPTY THEN visited_discs
    ELSE RayKeepsOnEmpty(b, new_row + dy, new_col + dx, dy, dx, player,
                         Append(visited_discs, <<new_row, new_col>>))

\* a faulty variant of Ray: a disc of the player ends the walk only once
\* some disc was met before it, otherwise it is walked over as any disc
RECURSIVE RaySkipsOwnFirst(_, _, _, _, _, _, _)
RaySkipsOwnFirst(b, new_row, new_col, dy, dx, player, visited_discs) ==
    IF OutOfBounds(new_row, new_col) THEN << >>
    ELSE IF b[new_row][new_col] = player /\ visited_discs # << >>
         THEN visited_discs
    ELSE IF b[new_row][new_col] = EMPTY THEN << >>
    ELSE RaySkipsOwnFirst(b, new_row + dy, new_col + dx, dy, dx, player,
                          Append(visited_discs, <<new_row, new_col>>))

\* the while loop of would_flip for one direction: what it adds to flips
RECURSIVE Ray(_, _, _, _, _, _, _)
Ray(b, new_row, new_col, dy, dx, player, visited_discs) ==
    IF OutOfBounds(new_row, new_col) THEN << >>
    ELSE IF b[new_row][new_col] = player THEN visited_discs
    ELSE IF b[new_row][new_col] = EMPTY THEN << >>
    ELSE Ray(b, new_row + dy, new_col + dx, dy, dx, player,
             Append(visited_discs, <<new_row, new_col>>))

\* the for loop of would_flip from direction number i on
RECURSIVE FlipsFrom(_, _, _, _, _)
FlipsFrom(b, row, column, player, i) ==
    IF i > Len(Directions) THEN << >>
    ELSE LET dy == Directions[i][1]
             dx == Directions[i][2]
         IN  IF dy = 0 /\ dx = 0
             THEN FlipsFrom(b, row, column, player, i + 1)
             ELSE Ray(b, row + dy, column + dx, dy, dx, player, << >>)
                  \o FlipsFrom(b, row, column, player, i + 1)

would_flip(b, row, column, player) == FlipsFrom(b, row, column, player, 1)

\* the nested loops of validate_placing that look for a neighbouring disc,
\* from neighbour number i on (0 .. 8, row by row)
RECURSIVE IsAdjacentFrom(_, _, _, _)
IsAdjacentFrom(b, row, column, i) ==
    IF i > 8 THEN FALSE
    ELSE LET y == row - 1 + (i \div 3)
             x == column - 1 + (i % 3)
         IN  IF OutOfBounds(y, x) THEN IsAdjacentFrom(b, row, column, i + 1)
             ELSE IF row = y /\ column = x
                  THEN IsAdjacentFrom(b, row, column, i + 1)
             ELSE IF b[y][x] # EMPTY THEN TRUE
             ELSE IsAdjacentFrom(b, row, column, i + 1)

\* a faulty variant of validate_placing: a taken square is not refused
ValidatePlacingOnTaken(b, row, column, player) ==
    IF OutOfBounds(row, column)
    THEN [valid |-> FALSE, reason |-> "Placement out of bounds."]
    ELSE IF ~IsAdjacentFrom(b, row, column, 0)
    THEN [valid |-> FALSE,
          reason |-> "New disc must be adjacent to some existing one."]
    ELSE IF would_flip(b, row, column, player) = << >>
    THEN [valid |-> FALSE, reason |-> "Move won't flip any disks."]
    ELSE [valid |-> TRUE, reason |-> ""]

validate_placing(b, row, column, player) ==
    IF OutOfBounds(row, column)
    THEN [valid |-> FALSE, reason |-> "Placement out of bounds."]
    ELSE IF b[row][column] # EMPTY
    THEN [valid |-> FALSE, reason |-> "Square taken."]
    ELSE IF ~IsAdjacentFrom(b, row, column, 0)
    THEN [valid |-> FALSE,
          reason |-> "New disc must be adjacent to some existing one."]
    ELSE IF would_flip(b, row, column, player) = << >>
    THEN [valid |-> FALSE, reason |-> "Move won't flip any disks."]
    ELSE [valid |-> TRUE, reason |-> ""]

\* a faulty variant of FlipAll: the last disc of to_flip is not turned
RECURSIVE FlipAllButLast(_, _, _, _)
FlipAllButLast(b, to_flip, player, i) ==
    IF i >= Len(to_flip) THEN b
    ELSE FlipAllButLast([b EXCEPT ![to_flip[i][1]][to_flip[i][2]] = player],
                        to_flip, player, i + 1)

\* a faulty variant of FlipAll: the discs of to_flip are taken off the grid
\* instead of being turned
RECURSIVE FlipAllClears(_, _, _, _)
FlipAllClears(b, to_flip, player, i) ==
    IF i > Len(to_flip) THEN b
    ELSE FlipAllClears([b EXCEPT ![to_flip[i][1]][to_flip[i][2]] = EMPTY],
                       to_flip, player, i + 1)

\* the loop of place that turns the discs of to_flip, from number i on
RECURSIVE FlipAll(_, _, _, _)
FlipAll(b, to_flip, player, i) ==
    IF i > Len(to_flip) THEN b
    ELSE FlipAll([b EXCEPT ![to_flip[i][1]][to_flip[i][2]] = player],
                 to_flip, player, i + 1)

\* a faulty variant of place: the disc is written with row and column
\* exchanged
PlaceTransposed(b, row, column, player) ==
    LET checked == validate_placing(b, row, column, player)
        to_flip == would_flip(b, row, column, player)
        flipped == FlipAll(b, to_flip, player, 1)
    IN  IF PyIndexOk(row, Rows) /\ PyIndexOk(column, Columns)
        THEN [board   |-> [flipped EXCEPT
                              ![PyIndex(column, Columns)][PyIndex(row, Rows)]
                                  = player],
              raised  |-> "",
              checked |-> checked,
              to_flip |-> to_flip]
        ELSE [board   |-> flipped,
              raised  |-> "IndexError",
              checked |-> checked,
              to_flip |-> to_flip]

\* place: the grid it leaves, the exception it raises ("" for none), and
\* the two values it computes on the way
place(b, row, column, player) ==
    LET checked == validate_placing(b, row, column, player)
        to_flip == would_flip(b, row, column, player)
        flipped == FlipAll(b, to_flip, player, 1)
    IN  IF PyIndexOk(row, Rows) /\ PyIndexOk(column, Columns)
        THEN [board   |-> [flipped EXCEPT
                              ![PyIndex(row, Rows)][PyIndex(column, Columns)]
                                  = player],
              raised  |-> "",
              checked |-> checked,
              to_flip |-> to_flip]
        ELSE [board   |-> flipped,
              raised  |-> "IndexError",
              checked |-> checked,
              to_flip |-> to_flip]

\* a faulty variant of valid_moves: the loops are nested the other way
\* round, the cells are visited column by column
ValidMovesByColumn(b, player) ==
    LET moves_from[i \in 0 .. (Rows * Columns)] ==
            IF i >= Rows * Columns THEN << >>
            ELSE IF validate_placing(b, i % Rows, i \div Rows, player).valid
                 THEN << <<i % Rows, i \div Rows>> >> \o moves_from[i + 1]
                 ELSE moves_from[i + 1]
    IN  moves_from[0]

\* valid_moves: moves_from[i] is what the nested loops append from cell
\* number i on, the cells being numbered row by row
valid_moves(b, player) ==
    LET moves_from[i \in 0 .. (Rows * Columns)] ==
            IF i >= Rows * Columns THEN << >>
            ELSE IF validate_placing(b, i \div Columns, i % Columns,
                                     player).valid
                 THEN << <<i \div Columns, i % Columns>> >>
                      \o moves_from[i + 1]
                 ELSE moves_from[i + 1]
    IN  moves_from[0]

\* has_valid_move: found_from[i] is what the nested loops return from cell
\* number i on
has_valid_move(b, player) ==
    LET found_from[i \in 0 .. (Rows * Columns)] ==
            IF i >= Rows * Columns THEN FALSE
            ELSE IF validate_placing(b, i \div Columns, i % Columns,
                                     player).valid
                 THEN TRUE
                 ELSE found_from[i + 1]
    IN  found_from[0]

\* scores[i] after the loops of get_winner: scores has three entries and
\* every cell, EMPTY included, is used as an index into it
Scores(b) ==
    [i \in 0 .. 2 |->
        Cardinality({rc \in Cells : PyIndex(b[rc[1]][rc[2]], 3) = i})]

MaxOf(s) == CHOOSE m \in {s[i] : i \in DOMAIN s} :
                \A i \in DOMAIN s : s[i] <= m

get_winner(b) ==
    LET scores == Scores(b)
        max_score == MaxOf(scores)
    IN  IF Cardinality({i \in 0 .. 2 : scores[i] = max_score}) > 1
        THEN None
        ELSE Some(CHOOSE i \in 0 .. 2 :
                      /\ scores[i] = max_score
                      /\ \A j \in 0 .. 2 : scores[j] = max_score => i <= j)

----------------------------------------------------------------------------
(* The record kept of the last call on the board *)

\* an activation record of minimax: its arguments (b names the board
\* object: 0 is the caller's, k > 0 is copies[k]; own says the object is a
\* deep copy made for this call), its locals (valid_moves, max_eval, i the
\* position of the for loop in valid_moves), where it stands (pc) and, as
\* history, the values its recursive calls returned so far (evals)
NoFrame ==
    [b |-> 0, own |-> FALSE, depth |-> 0, maximizing_player |-> 0,
     current_player |-> 0, num_players |-> NumPlayers, turns_passed |-> 0,
     heuristic |-> "none", pc |-> "enter", valid_moves |-> << >>, i |-> 0,
     max_eval |-> None, evals |-> << >>]

NoCall ==
    [op |-> "none", caller |-> "none", row |-> 0, column |-> 0, player |-> 0,
     pre |-> NewBoard, valid |-> FALSE, reason |-> "", to_flip |-> << >>,
     raised |-> "", moves |-> << >>, flag |-> FALSE, winner |-> None,
     node |-> NoFrame, value |-> None]

PlaceCall(caller, b, row, column, player, r) ==
    [NoCall EXCEPT !.op = "place", !.caller = caller, !.row = row,
                   !.column = column, !.player = player, !.pre = b,
                   !.valid = r.checked.valid, !.reason = r.checked.reason,
                   !.to_flip = r.to_flip, !.raised = r.raised]

\* what a player's get_move may return: a legal move of that player
get_move(b, player) ==
    {rc \in Cells : validate_placing(b, rc[1], rc[2], player).valid}

SearchIdle ==
    /\ stack = << >>
    /\ copies = << >>
    /\ ret = None
    /\ root = [frame |-> NoFrame, board |-> NewBoard]

----------------------------------------------------------------------------
(* The board under its callers: Game.start seeds it and plays turns; any   *)
(* caller may also call the board directly with arguments of its choice.   *)
(* These callers act while no search is running (SearchIdle).              *)
(* A behaviour is a prefix of a game, or a position built by direct calls   *)
(* of place, followed by one direct call.                                  *)

\* a caller that builds a position by direct calls of place: discs along
\* the top row from the corner, on the diagonal into the opposite corner
\* and on the right border
EdgeCalls ==
    << <<0, 0, 1>>, <<0, 1, 0>>, <<0, 2, 0>>, <<8, 8, 2>>, <<7, 7, 0>>,
       <<3, 8, 1>>, <<4, 8, 2>> >>

RECURSIVE PlaceAll(_, _, _)
PlaceAll(b, calls, i) ==
    IF i > Len(calls) THEN b
    ELSE PlaceAll(place(b, calls[i][1], calls[i][2], calls[i][3]).board,
                  calls, i + 1)

EdgeBoard == PlaceAll(NewBoard, EdgeCalls, 1)

\* a caller that fills part of row r by direct calls of place, in an order
\* in which no call turns a disc: player 1 on columns 1 and 5 and player 0
\* on columns 2, 3 and 4 between them
FlankedRowCalls(r) ==
    << <<r, 1, 1>>, <<r, 5, 1>>, <<r, 2, 0>>, <<r, 3, 0>>, <<r, 4, 0>> >>

\* the same with column 1 left empty
OpenRowCalls(r) ==
    << <<r, 5, 1>>, <<r, 2, 0>>, <<r, 3, 0>>, <<r, 4, 0>> >>

RowBoards ==
    {PlaceAll(NewBoard, FlankedRowCalls(r), 1) : r \in RowIdx}
        \cup {PlaceAll(NewBoard, OpenRowCalls(r), 1) : r \in RowIdx}

\* a new board in the hands of Game, or a position built by direct calls
\* of place
Init ==
    /\ \/ board = NewBoard /\ phase = "new"
       \/ board = EdgeBoard /\ phase = "direct"
       \/ board \in RowBoards /\ phase = "direct"
    /\ turn = 0
    /\ nturns = 0
    /\ last = NoCall
    /\ SearchIdle

\* Game.start, line 24
SetupThreePlayers ==
    /\ SearchIdle
    /\ phase = "new"
    /\ last.caller # "api"
    /\ board' = setup_three_players(board)
    /\ phase' = "play"
    /\ last' = [NoCall EXCEPT !.op = "setup_three_players",
                              !.caller = "game", !.pre = board]
    /\ UNCHANGED <<turn, nturns, stack, copies, ret, root>>

\* a faulty variant of Iteration: players_stuck is set again by every
\* player that has no move, whatever the players before it did
IterationLastDecides(answers) ==
    LET can_move == has_valid_move(board, turn)
        stuck_out == ~can_move
        round_ends == (turn = NumPlayers - 1)
    IN  /\ IF can_move
           THEN \E rc \in answers :
                   LET r == place(board, rc[1], rc[2], turn)
                   IN  /\ board' = r.board
                       /\ last' = [PlaceCall("game", board, rc[1], rc[2],
                                             turn, r)
                                     EXCEPT !.flag = stuck_out]
                       /\ phase' = "play"
           ELSE /\ board' = board
                /\ IF round_ends /\ stuck_out
                   THEN /\ phase' = "over"
                        /\ last' = [NoCall EXCEPT
                                       !.op = "get_winner",
                                       !.caller = "game", !.pre = board,
                                       !.winner = get_winner(board),
                                       !.flag = stuck_out]
                   ELSE /\ phase' = "play"
                        /\ last' = [NoCall EXCEPT
                                       !.op = "skip", !.caller = "game",
                                       !.player = turn, !.pre = board,
                                       !.flag = stuck_out]
        /\ turn' = (turn + 1) % NumPlayers
        /\ nturns' = nturns + 1
        /\ UNCHANGED <<stack, copies, ret, root>>

\* Game.start, one iteration of the for loop over the players and, after
\* the last player of a round, the test of players_stuck.  last.flag
\* holds players_stuck between the iterations of a round; answers is what
\* the player's get_move may return.
Iteration(answers) ==
    LET stuck_in == IF turn = 0 THEN TRUE ELSE last.flag
        can_move == has_valid_move(board, turn)
        stuck_out == IF can_move THEN FALSE ELSE stuck_in
        round_ends == (turn = NumPlayers - 1)
    IN  /\ IF can_move
           THEN \E rc \in answers :
                   LET r == place(board, rc[1], rc[2], turn)
                   IN  /\ board' = r.board
                       /\ last' = [PlaceCall("game", board, rc[1], rc[2],
                                             turn, r)
                                     EXCEPT !.flag = stuck_out]
                       /\ phase' = "play"
           ELSE /\ board' = board
                /\ IF round_ends /\ stuck_out
                   THEN /\ phase' = "over"
                        /\ last' = [NoCall EXCEPT
                                       !.op = "get_winner",
                                       !.caller = "game", !.pre = board,
                                       !.winner = get_winner(board),
                                       !.flag = stuck_out]
                   ELSE /\ phase' = "play"
                        /\ last' = [NoCall EXCEPT
                                       !.op = "skip", !.caller = "game",
                                       !.player = turn, !.pre = board,
                                       !.flag = stuck_out]
        /\ turn' = (turn + 1) % NumPlayers
        /\ nturns' = nturns + 1
        /\ UNCHANGED <<stack, copies, ret, root>>

\* an iteration of the game, the player returning any legal move; the
\* board is probed after MaxTurns of them at the latest
Turn ==
    /\ SearchIdle
    /\ phase = "play"
    /\ last.caller # "api"
    /\ nturns < MaxTurns
    /\ Iteration(get_move(board, turn))

\* Board.place called directly
Place(row, column, player) ==
    /\ SearchIdle
    /\ last.caller # "api"
    /\ LET r == place(board, row, column, player)
       IN  /\ board' = r.board
           /\ last' = PlaceCall("api", board, row, column, player, r)
    /\ UNCHANGED <<phase, turn, nturns, stack, copies, ret, root>>

\* Board.valid_moves called directly
ValidMoves(player) ==
    /\ SearchIdle
    /\ last.caller # "api"
    /\ last' = [NoCall EXCEPT !.op = "valid_moves", !.caller = "api",
                              !.player = player, !.pre = board,
                              !.moves = valid_moves(board, player)]
    /\ UNCHANGED <<board, phase, turn, nturns, stack, copies, ret, root>>

\* Board.has_valid_move called directly
HasValidMove(player) ==
    /\ SearchIdle
    /\ last.caller # "api"
    /\ last' = [NoCall EXCEPT !.op = "has_valid_move", !.caller = "api",
                              !.player = player, !.pre = board,
                              !.flag = has_valid_move(board, player)]
    /\ UNCHANGED <<board, phase, turn, nturns, stack, copies, ret, root>>

\* Board.get_winner called directly
GetWinner ==
    /\ SearchIdle
    /\ last.caller # "api"
    /\ last' = [NoCall EXCEPT !.op = "get_winner", !.caller = "api",
                              !.pre = board, !.winner = get_winner(board)]
    /\ UNCHANGED <<board, phase, turn, nturns, stack, copies, ret, root>>

Next ==
    \/ SetupThreePlayers
    \/ Turn
    \/ \E row \in ArgRows, column \in ArgCols, player \in Players :
          Place(row, column, player)
    \/ \E player \in Players : ValidMoves(player)
    \/ \E player \in Players : HasValidMove(player)
    \/ GetWinner

Spec == Init /\ [][Next]_vars

----------------------------------------------------------------------------
(* A game played to its end.  In the first MaxFreeTurns iterations the      *)
(* player returns any legal move; from then on players 0 and 2 return the  *)
(* last legal move, the cells taken row by row, and player 1 returns the   *)
(* first.  The cells are numbered row by row.                              *)

GameMoves(b, player) ==
    LET n == Rows * Columns
        valid(i) == validate_placing(b, i \div Columns, i % Columns,
                                     player).valid
        first_from[i \in 0 .. n] ==
            IF i >= n THEN n
            ELSE IF valid(i) THEN i ELSE first_from[i + 1]
        last_to[i \in -1 .. (n - 1)] ==
            IF i < 0 THEN -1
            ELSE IF valid(i) THEN i ELSE last_to[i - 1]
        answer == IF player = 1 THEN first_from[0] ELSE last_to[n - 1]
    IN  IF nturns < MaxFreeTurns THEN get_move(b, player)
        ELSE IF answer \in 0 .. (n - 1)
             THEN {<<answer \div Columns, answer % Columns>>}
             ELSE {}

InitGame ==
    /\ board = NewBoard
    /\ phase = "new"
    /\ turn = 0
    /\ nturns = 0
    /\ last = NoCall
    /\ SearchIdle

\* an iteration of the game
GameTurn ==
    /\ SearchIdle
    /\ phase = "play"
    /\ Iteration(GameMoves(board, turn))

NextGame ==
    \/ SetupThreePlayers
    \/ GameTurn

SpecGame == InitGame /\ [][NextGame]_vars

----------------------------------------------------------------------------
(* minimax.  The recursion is run on an explicit stack of activation       *)
(* records.  A call made in the for loop shares the caller's board object; *)
(* a pass call gets a deep copy of it.                                     *)

\* the evaluation functions a caller may supply: the number of discs of
\* the player, and a positional sum of them (corner 4, edge 2, other 1)
Heuristics == {"greedy", "weighted"}

Weight(row, column) ==
    LET row_edge == (row = 0 \/ row = Rows - 1)
        col_edge == (column = 0 \/ column = Columns - 1)
    IN  IF row_edge /\ col_edge THEN 4
        ELSE IF row_edge \/ col_edge THEN 2
        ELSE 1

heuristic(h, b, player) ==
    LET sum_from[i \in 0 .. (Rows * Columns)] ==
            IF i >= Rows * Columns THEN 0
            ELSE (IF b[i \div Columns][i % Columns] # player THEN 0
                  ELSE IF h = "greedy" THEN 1
                  ELSE Weight(i \div Columns, i % Columns))
                 + sum_from[i + 1]
    IN  sum_from[0]

BoardOf(id) == IF id = 0 THEN board ELSE copies[id]

Top == stack[Len(stack)]

Rest == SubSeq(stack, 1, Len(stack) - 1)

\* line 8
IsTerminal(f) == f.depth = 0 \/ f.turns_passed = f.num_players

\* line 9
BaseValue(f, b) == heuristic(f.heuristic, b, f.current_player)

\* line 13
next_player(f) == (f.current_player + 1) % f.num_players

\* a faulty variant of PassCall: turns_passed is handed on as it is
PassCallSameCount(f, id) ==
    [NoFrame EXCEPT !.b = id, !.own = TRUE, !.depth = f.depth - 1,
                    !.maximizing_player = f.maximizing_player,
                    !.current_player = (f.current_player + 1) % f.num_players,
                    !.num_players = f.num_players,
                    !.turns_passed = f.turns_passed,
                    !.heuristic = f.heuristic]

\* a faulty variant of PassCall: a pass does not use up depth
PassCallSameDepth(f, id) ==
    [NoFrame EXCEPT !.b = id, !.own = TRUE, !.depth = f.depth,
                    !.maximizing_player = f.maximizing_player,
                    !.current_player = (f.current_player + 1) % f.num_players,
                    !.num_players = f.num_players,
                    !.turns_passed = f.turns_passed + 1,
                    !.heuristic = f.heuristic]

\* line 17: the activation record of the pass call, on the copy numbered id
PassCall(f, id) ==
    [NoFrame EXCEPT !.b = id, !.own = TRUE, !.depth = f.depth - 1,
                    !.maximizing_player = f.maximizing_player,
                    !.current_player = next_player(f),
                    !.num_players = f.num_players,
                    !.turns_passed = f.turns_passed + 1,
                    !.heuristic = f.heuristic]

\* a faulty variant of MoveCall: turns_passed is handed on as it is
MoveCallKeepsCount(f) ==
    [NoFrame EXCEPT !.b = f.b, !.own = FALSE, !.depth = f.depth - 1,
                    !.maximizing_player = f.maximizing_player,
                    !.current_player = (f.current_player + 1) % f.num_players,
                    !.num_players = f.num_players,
                    !.turns_passed = f.turns_passed,
                    !.heuristic = f.heuristic]

\* line 21: the activation record of the call made for a move
MoveCall(f) ==
    [NoFrame EXCEPT !.b = f.b, !.own = FALSE, !.depth = f.depth - 1,
                    !.maximizing_player = f.maximizing_player,
                    !.current_player = next_player(f),
                    !.num_players = f.num_players,
                    !.turns_passed = 0,
                    !.heuristic = f.heuristic]

\* a faulty variant of Aggregate: max is taken for every player
AggregateAlwaysMax(f, evaluation) ==
    IF f.max_eval = None THEN Some(evaluation)
    ELSE Some(IF f.max_eval[1] >= evaluation
              THEN f.max_eval[1] ELSE evaluation)

\* lines 23-24: max_eval after a call of the for loop returned evaluation
Aggregate(f, evaluation) ==
    IF f.max_eval = None THEN Some(evaluation)
    ELSE IF f.current_player = f.maximizing_player
         THEN Some(IF f.max_eval[1] >= evaluation
                   THEN f.max_eval[1] ELSE evaluation)
         ELSE Some(IF f.max_eval[1] <= evaluation
                   THEN f.max_eval[1] ELSE evaluation)

\* the copies left when the call of record f is over
CopiesAfter(f) ==
    IF f.own THEN SubSeq(copies, 1, Len(copies) - 1) ELSE copies

SearchCall(op, f, b) ==
    [NoCall EXCEPT !.op = op, !.caller = "minimax", !.pre = b, !.node = f,
                   !.player = f.current_player]

\* lines 8-9: the base case
SearchBase ==
    /\ stack # << >>
    /\ Top.pc = "enter"
    /\ IsTerminal(Top)
    /\ ret' = Some(BaseValue(Top, BoardOf(Top.b)))
    /\ stack' = Rest
    /\ copies' = CopiesAfter(Top)
    /\ last' = SearchCall("base", Top, BoardOf(Top.b))
    /\ UNCHANGED <<board, phase, turn, nturns, root>>

\* lines 11-13: the valid moves of the current player are listed
SearchValidMoves ==
    /\ stack # << >>
    /\ Top.pc = "enter"
    /\ ~IsTerminal(Top)
    /\ stack' = Append(Rest,
           [Top EXCEPT !.pc = "test", !.i = 1,
               !.valid_moves = valid_moves(BoardOf(Top.b),
                                           Top.current_player)])
    /\ last' = SearchCall("valid_moves", Top, BoardOf(Top.b))
    /\ UNCHANGED <<board, copies, phase, turn, nturns, ret, root>>

\* lines 16-17: no valid move, the pass call is made on a deep copy
SearchPass ==
    /\ stack # << >>
    /\ Top.pc = "test"
    /\ Top.valid_moves = << >>
    /\ copies' = Append(copies, BoardOf(Top.b))
    /\ stack' = Append(Rest \o << [Top EXCEPT !.pc = "passed"] >>,
                       PassCall(Top, Len(copies) + 1))
    /\ last' = SearchCall("pass", Top, BoardOf(Top.b))
    /\ UNCHANGED <<board, phase, turn, nturns, ret, root>>

\* line 17: the pass call returned, its value is returned
SearchPassReturn ==
    /\ stack # << >>
    /\ Top.pc = "passed"
    /\ ret # None
    /\ ret' = ret
    /\ stack' = Rest
    /\ copies' = CopiesAfter(Top)
    /\ last' = [SearchCall("pass_return", Top, BoardOf(Top.b))
                  EXCEPT !.value = ret]
    /\ UNCHANGED <<board, phase, turn, nturns, root>>

\* lines 19-21: the next move is placed and the recursive call is made
SearchMove ==
    /\ stack # << >>
    /\ Top.pc \in {"test", "loop"}
    /\ Top.i <= Len(Top.valid_moves)
    /\ LET move == Top.valid_moves[Top.i]
           r == place(BoardOf(Top.b), move[1], move[2], Top.current_player)
       IN  /\ IF Top.b = 0
              THEN board' = r.board /\ copies' = copies
              ELSE board' = board
                   /\ copies' = [copies EXCEPT ![Top.b] = r.board]
           /\ last' = [PlaceCall("minimax", BoardOf(Top.b), move[1], move[2],
                                 Top.current_player, r)
                         EXCEPT !.op = "move", !.node = Top]
    /\ stack' = Append(Rest \o << [Top EXCEPT !.pc = "called"] >>,
                       MoveCall(Top))
    /\ UNCHANGED <<phase, turn, nturns, ret, root>>

\* lines 21-24: the call returned; the placed cell is emptied and the value
\* is folded into max_eval
SearchUndo ==
    /\ stack # << >>
    /\ Top.pc = "called"
    /\ ret # None
    /\ LET move == Top.valid_moves[Top.i]
           undone == [BoardOf(Top.b) EXCEPT ![move[1]][move[2]] = EMPTY]
       IN  /\ IF Top.b = 0
              THEN board' = undone /\ copies' = copies
              ELSE board' = board
                   /\ copies' = [copies EXCEPT ![Top.b] = undone]
           /\ last' = [SearchCall("undo", Top, BoardOf(Top.b))
                         EXCEPT !.row = move[1], !.column = move[2],
                                !.value = ret]
    /\ stack' = Append(Rest,
           [Top EXCEPT !.pc = "loop", !.i = Top.i + 1,
                       !.max_eval = Aggregate(Top, ret[1]),
                       !.evals = Append(Top.evals, ret[1])])
    /\ ret' = None
    /\ UNCHANGED <<phase, turn, nturns, root>>

\* line 26: the for loop is over, max_eval is returned
SearchReturn ==
    /\ stack # << >>
    /\ Top.pc = "loop"
    /\ Top.i > Len(Top.valid_moves)
    /\ ret' = Top.max_eval
    /\ stack' = Rest
    /\ copies' = CopiesAfter(Top)
    /\ last' = SearchCall("return", Top, BoardOf(Top.b))
    /\ UNCHANGED <<board, phase, turn, nturns, root>>

\* a position of few discs in which players 1 and 2 have no valid move
StuckBoard == PlaceAll(NewBoard, FlankedRowCalls(4), 1)

\* minimax is called on the seeded board of a game, or on StuckBoard, with
\* a depth of at most max_depth
SearchInitTo(max_depth) ==
    /\ \/ board = setup_three_players(NewBoard) /\ phase = "play"
       \/ board = StuckBoard /\ phase = "direct"
    /\ turn = 0
    /\ nturns = 0
    /\ last = NoCall
    /\ copies = << >>
    /\ ret = None
    /\ \E depth \in 0 .. max_depth, maximizing_player \in Players,
          current_player \in Players, h \in Heuristics :
          root = [frame |-> [NoFrame EXCEPT
                                !.depth = depth,
                                !.maximizing_player = maximizing_player,
                                !.current_player = current_player,
                                !.heuristic = h],
                  board |-> board]
    /\ stack = << root.frame >>

SearchInit == SearchInitTo(MaxDepth)

SearchNext ==
    \/ SearchBase
    \/ SearchValidMoves
    \/ SearchPass
    \/ SearchPassReturn
    \/ SearchMove
    \/ SearchUndo
    \/ SearchReturn

SpecSearch == SearchInit /\ [][SearchNext]_vars

SearchDone == stack = << >> /\ ret # None

\* minimax runs to its end without interruption: a call that can take a
\* step takes it
SpecSearchFair ==
    /\ SearchInitTo(MaxDepthFair)
    /\ [][SearchNext]_vars
    /\ WF_vars(SearchNext)

----------------------------------------------------------------------------
(* The callers of the board and the searches in one specification: a       *)
(* behaviour is one of Spec, or a search of depth at most MaxDepthShort.    *)

InitBoth == Init \/ SearchInitTo(MaxDepthShort)

NextBoth ==
    \/ SetupThreePlayers
    \/ Turn
    \/ \E row \in ArgRows, column \in ArgCols, player \in Players :
          Place(row, column, player)
    \/ \E player \in Players : ValidMoves(player)
    \/ \E player \in Players : HasValidMove(player)
    \/ GetWinner
    \/ SearchBase
    \/ SearchValidMoves
    \/ SearchPass
    \/ SearchPassReturn
    \/ SearchMove
    \/ SearchUndo
    \/ SearchReturn

SpecBoth == InitBoth /\ [][NextBoth]_vars

----------------------------------------------------------------------------
(* The starting position: the first round of a game, the players returning *)
(* any legal move, and the searches of depth at most MaxDepthFair.          *)

InitStart == InitGame \/ SearchInitTo(MaxDepthFair)

\* an iteration of the first round of the game
FirstRound ==
    /\ SearchIdle
    /\ phase = "play"
    /\ nturns < NumPlayers
    /\ Iteration(get_move(board, turn))

NextStart ==
    \/ SetupThreePlayers
    \/ FirstRound
    \/ SearchBase
    \/ SearchValidMoves
    \/ SearchPass
    \/ SearchPassReturn
    \/ SearchMove
    \/ SearchUndo
    \/ SearchReturn

SpecStart == InitStart /\ [][NextStart]_vars

----------------------------------------------------------------------------
(* What the claims speak of, stated without the code's loops *)

SetOf(seq) == {seq[i] : i \in DOMAIN seq}

At(b, rc) == b[rc[1]][rc[2]]

Dirs8 == {d \in {-1, 0, 1} \X {-1, 0, 1} : d # <<0, 0>>}

Step(row, column, d, j) == <<row + j * d[1], column + j * d[2]>>

\* direction d brackets a run of exactly k discs of other players between
\* the target and a disc of player
Brackets(b, row, column, player, d, k) ==
    /\ \A j \in 1 .. k :
          /\ Step(row, column, d, j) \in Cells
          /\ At(b, Step(row, column, d, j)) \notin {EMPTY, player}
    /\ Step(row, column, d, k + 1) \in Cells
    /\ At(b, Step(row, column, d, k + 1)) = player

Captured(b, row, column, player) ==
    UNION {{Step(row, column, d, j) : j \in 1 .. k} :
             <<d, k>> \in {dk \in Dirs8 \X (1 .. (Rows + Columns)) :
                              Brackets(b, row, column, player, dk[1], dk[2])}}

HasNeighbour(b, row, column) ==
    \E rc \in Cells :
        /\ rc # <<row, column>>
        /\ rc[1] - row \in {-1, 0, 1}
        /\ rc[2] - column \in {-1, 0, 1}
        /\ At(b, rc) # EMPTY

Occupied(b) == {rc \in Cells : At(b, rc) # EMPTY}

DiscsOf(b, player) == Cardinality({rc \in Cells : At(b, rc) = player})

RowMajorBefore(m, n) == m[1] < n[1] \/ (m[1] = n[1] /\ m[2] < n[2])

\* the only discs of b are in row r: player 0 on the columns cols0, player 1
\* on the columns cols1
OneRow(b, r, cols0, cols1) ==
    \A rc \in Cells :
        At(b, rc) = IF rc[1] = r /\ rc[2] \in cols0 THEN 0
                    ELSE IF rc[1] = r /\ rc[2] \in cols1 THEN 1
                    ELSE EMPTY

SeqMax(seq) == CHOOSE m \in SetOf(seq) : \A x \in SetOf(seq) : x <= m

SeqMin(seq) == CHOOSE m \in SetOf(seq) : \A x \in SetOf(seq) : m <= x

----------------------------------------------------------------------------
(* Claims about the board, under Spec *)

\* C1: a placement the legality check refuses signals IllegalMove and
\* leaves every cell of the grid as it was.
C1_IllegalPlaceRejected ==
    (last.op = "place" /\ ~last.valid) =>
        /\ last.raised \in {"IllegalMove", "ForbiddenMove"}
        /\ board = last.pre

\* C3: for an in-bounds target, would_flip returns exactly the cells of the
\* runs of other players' discs that start next to the target in one of
\* the 8 directions and end before a disc of the player; a run that ends
\* at an empty cell or at the border gives nothing.
C3_CapturesExact ==
    (last.op = "place" /\ <<last.row, last.column>> \in Cells) =>
        SetOf(last.to_flip)
            = Captured(last.pre, last.row, last.column, last.player)

\* a placement that captured a run of two discs in one direction
C3_Witness ==
    /\ last.op = "place"
    /\ <<last.row, last.column>> \in Cells
    /\ \E d \in Dirs8 :
          /\ Step(last.row, last.column, d, 1) \in SetOf(last.to_flip)
          /\ Step(last.row, last.column, d, 2) \in SetOf(last.to_flip)

\* C4: the legality check is true exactly when the target is inside the
\* grid, the target cell is empty, one of its neighbours is not empty and
\* would_flip returns at least one cell.
C4_LegalIff ==
    last.op = "place" =>
        (last.valid <=>
            /\ <<last.row, last.column>> \in Cells
            /\ At(last.pre, <<last.row, last.column>>) = EMPTY
            /\ HasNeighbour(last.pre, last.row, last.column)
            /\ would_flip(last.pre, last.row, last.column, last.player)
                   # << >>)

\* a direct call of place with a move the legality check accepted
C4_Witness == last.op = "place" /\ last.caller = "api" /\ last.valid

\* C5: get_winner counts the occupied cells of each player and returns the
\* player with strictly more discs than every other, None otherwise.
C5_WinnerCountsOccupied ==
    last.op = "get_winner" =>
        last.winner =
            (IF \E p \in Players : \A q \in Players \ {p} :
                    DiscsOf(last.pre, p) > DiscsOf(last.pre, q)
             THEN Some(CHOOSE p \in Players : \A q \in Players \ {p} :
                           DiscsOf(last.pre, p) > DiscsOf(last.pre, q))
             ELSE None)

\* C9: valid_moves returns exactly the cells the legality check accepts,
\* each once, row by row and within a row by column; has_valid_move is
\* true exactly when valid_moves is not empty.
C9_ValidMovesExact ==
    /\ last.op = "valid_moves" /\ last.caller = "api" =>
          /\ \A i, j \in DOMAIN last.moves :
                i < j => RowMajorBefore(last.moves[i], last.moves[j])
          /\ SetOf(last.moves)
                = {rc \in Cells :
                      validate_placing(last.pre, rc[1], rc[2],
                                       last.player).valid}
    /\ last.op = "has_valid_move" =>
          (last.flag <=> valid_moves(last.pre, last.player) # << >>)

\* valid_moves returned moves of more than one row
C9_Witness ==
    /\ last.op = "valid_moves"
    /\ last.caller = "api"
    /\ Len(last.moves) >= 2
    /\ last.moves[1][1] < last.moves[Len(last.moves)][1]

\* C10: after place with a move the legality check accepts, no fewer cells
\* are occupied than before, and the placed cell and every cell would_flip
\* returned on the grid before belong to the player.
C10_PlaceOwnsCaptures ==
    (last.op = "place" /\ last.valid) =>
        /\ Cardinality(Occupied(board)) >= Cardinality(Occupied(last.pre))
        /\ At(board, <<last.row, last.column>>) = last.player
        /\ \A rc \in SetOf(would_flip(last.pre, last.row, last.column,
                                      last.player)) :
              At(board, rc) = last.player

\* a legal move of the game that captured at least two discs
C10_Witness ==
    /\ last.op = "place"
    /\ last.caller = "game"
    /\ last.valid
    /\ Len(last.to_flip) >= 2

\* C14: after setup_three_players on a new board, whose cells are all
\* empty, the occupied cells are exactly the nine cells of rows 3 to 5 and
\* columns 3 to 5, around (4,4), and each of the players 0, 1 and 2 owns
\* exactly three of them.
C14_SetupSeedsCentreBlock ==
    last.op = "setup_three_players" =>
        /\ Occupied(last.pre) = {}
        /\ Occupied(board) = (3 .. 5) \X (3 .. 5)
        /\ Cardinality(Occupied(board)) = 9
        /\ \A p \in Players : DiscsOf(board, p) = 3
        /\ \A rc \in Cells \ ((3 .. 5) \X (3 .. 5)) : At(board, rc) = EMPTY

\* the game seeded its new board
C14_Witness ==
    /\ last.op = "setup_three_players"
    /\ last.caller = "game"
    /\ phase = "play"
    /\ At(board, <<4, 4>>) # EMPTY

\* C18: after place with a move the legality check accepts, every cell
\* other than the target and the cells would_flip returned on the grid
\* before has the value it had before, and exactly one more cell is
\* occupied.
C18_PlaceChangesOnlyCaptures ==
    (last.op = "place" /\ last.valid) =>
        /\ \A rc \in Cells :
              rc \notin SetOf(would_flip(last.pre, last.row, last.column,
                                         last.player))
                            \cup {<<last.row, last.column>>}
                  => At(board, rc) = At(last.pre, rc)
        /\ Cardinality(Occupied(board))
              = Cardinality(Occupied(last.pre)) + 1

\* a direct call of place, after a turn of the game, with a legal move off
\* the diagonal that captured discs
C18_Witness ==
    /\ last.op = "place"
    /\ last.caller = "api"
    /\ last.valid
    /\ nturns >= 1
    /\ last.row # last.column
    /\ last.to_flip # << >>
    /\ board # last.pre

\* the number of rounds of the game loop begun so far
RoundsBegun == (nturns + NumPlayers - 1) \div NumPlayers

\* the number of empty cells of the seeded board
EmptyAfterSetup ==
    Cardinality(Cells \ Occupied(setup_three_players(NewBoard)))

\* C19: with players that return legal moves the game loop returns after
\* at most EmptyAfterSetup + 1 rounds.  In every iteration a player that
\* has a legal move fills one empty cell and a player that has none leaves
\* the board as it is; players_stuck is true after an iteration exactly
\* when no player so far in the round had a legal move; the loop returns,
\* with the winner, at the end of a round exactly when players_stuck is
\* true then, and then no player has a legal move.  A game that has not
\* returned takes its next iteration; when a round is complete and the
\* game goes on, no more rounds were begun than cells were filled.
C19_GameLoopTerminates ==
    /\ [][nturns' = nturns + 1 =>
            LET can_move == \E rc \in Cells :
                    validate_placing(board, rc[1], rc[2], turn).valid
            IN  /\ can_move =>
                      /\ last'.op = "place"
                      /\ last'.valid
                      /\ Cardinality(Occupied(board'))
                            = Cardinality(Occupied(board)) + 1
                /\ ~can_move => board' = board
                /\ last'.flag
                      <=> (~can_move /\ (turn = 0 \/ last.flag))
                /\ phase' = "over"
                      <=> (turn = NumPlayers - 1 /\ last'.flag)
                /\ phase' = "over" =>
                      /\ last'.op = "get_winner"
                      /\ last'.winner = get_winner(board)]_vars
    /\ [](/\ phase = "over" =>
                \A p \in Players, rc \in Cells :
                    ~validate_placing(board, rc[1], rc[2], p).valid
          /\ phase = "play" =>
                \/ \A rc \in Cells :
                      ~validate_placing(board, rc[1], rc[2], turn).valid
                \/ GameMoves(board, turn) # {}
          /\ (phase = "play" /\ turn = 0) =>
                RoundsBegun
                    <= Cardinality(Occupied(board))
                           - Cardinality(Occupied(setup_three_players(NewBoard)))
          /\ RoundsBegun <= EmptyAfterSetup + 1)

\* a game that returned the winner after a round in which a player was
\* skipped while another one moved
C19_Witness ==
    /\ phase = "over"
    /\ last.op = "get_winner"
    /\ RoundsBegun > 1
    /\ 3 * (RoundsBegun - 1)
          > Cardinality(Occupied(board))
                - Cardinality(Occupied(setup_three_players(NewBoard)))

\* C20: on the board setup_three_players has just seeded every player has
\* a legal move.  In the first round of the game every player places a
\* disc, players_stuck is false after each of them and the loop does not
\* return; a search called on the seeded board with depth left lists at
\* least one move and does not make the pass call in its outermost call.
C20_StartHasMovesForAll ==
    /\ last.op = "setup_three_players" =>
           \A p \in Players :
               /\ has_valid_move(board, p)
               /\ \E rc \in Cells :
                      validate_placing(board, rc[1], rc[2], p).valid
    /\ (last.caller = "game" /\ nturns \in 1 .. NumPlayers) =>
           /\ last.op = "place"
           /\ last.valid
           /\ last.player = nturns - 1
           /\ ~last.flag
           /\ phase = "play"
    /\ phase = "over" => nturns > NumPlayers
    /\ (/\ root.board = setup_three_players(NewBoard)
        /\ root.frame.depth > 0
        /\ Len(stack) >= 1) =>
           /\ stack[1].pc # "passed"
           /\ stack[1].pc # "enter" => stack[1].valid_moves # << >>
           /\ (last.op = "pass" => Len(stack) > 2)

\* the first round of a game is over: three discs were placed and the
\* second round begins
C20_Witness ==
    /\ phase = "play"
    /\ nturns = NumPlayers
    /\ turn = 0
    /\ last.op = "place"
    /\ last.caller = "game"
    /\ Cardinality(Occupied(board)) = 12
    /\ \A p \in Players : has_valid_move(last.pre, p)

\* C12 as stated: with player 0 on columns 2, 3, 4 of a row and player 1 on
\* columns 1 and 5 and no other disc, placing player 1 on column 0 of the
\* row captures exactly the cells at columns 2, 3 and 4.
C12_FlankedRunCaptured ==
    \A r \in RowIdx :
        (/\ last.op = "place"
         /\ OneRow(last.pre, r, {2, 3, 4}, {1, 5})
         /\ <<last.row, last.column, last.player>> = <<r, 0, 1>>) =>
            SetOf(last.to_flip) = {<<r, 2>>, <<r, 3>>, <<r, 4>>}

\* C12 amended: on that board placing player 1 on column 0 captures no
\* cell, the walk meets the disc of player 1 on column 1 first, and the
\* legality check refuses the move; the cells at columns 2, 3 and 4 are
\* captured, and column 5 is not, when column 1 is the empty cell player 1
\* is placed on.
C12_RunCapturedFromFlank ==
    \A r \in RowIdx :
        /\ (/\ last.op = "place"
            /\ OneRow(last.pre, r, {2, 3, 4}, {1, 5})
            /\ <<last.row, last.column, last.player>> = <<r, 0, 1>>) =>
               /\ last.to_flip = << >>
               /\ ~last.valid
               /\ OneRow(board, r, {2, 3, 4}, {0, 1, 5})
        /\ (/\ last.op = "place"
            /\ OneRow(last.pre, r, {2, 3, 4}, {5})
            /\ <<last.row, last.column, last.player>> = <<r, 1, 1>>) =>
               /\ SetOf(last.to_flip) = {<<r, 2>>, <<r, 3>>, <<r, 4>>}
               /\ last.valid
               /\ OneRow(board, r, {}, {1, 2, 3, 4, 5})

\* player 1 was placed on column 0 of the row with both flanks taken
C12_Witness ==
    /\ last.op = "place"
    /\ \E r \in RowIdx :
          /\ OneRow(last.pre, r, {2, 3, 4}, {1, 5})
          /\ <<last.row, last.column, last.player>> = <<r, 0, 1>>
    /\ last.to_flip = << >>

----------------------------------------------------------------------------
(* Claims about the search, under SpecSearch *)

\* C2: when a minimax call has returned, the grid handed to it is cell for
\* cell what it was before the call.
C2_SearchRestoresBoard == SearchDone => board = root.board

\* C6: the value returned at a base case is the heuristic of the board for
\* the maximizing player.
C6_BaseUsesMaximizingPlayer ==
    last.op = "base" =>
        ret = Some(heuristic(last.node.heuristic, last.pre,
                             last.node.maximizing_player))

\* the node of record f on grid b: depth left, fewer passes than players,
\* and no cell the legality check accepts for the current player
PassCase(f, b) ==
    /\ f.depth > 0
    /\ f.turns_passed < f.num_players
    /\ \A rc \in Cells :
          ~validate_placing(b, rc[1], rc[2], f.current_player).valid

\* C7: at a node with depth left, fewer passes than players and no legal
\* move the search does not return the heuristic; it makes one recursive
\* call on an unchanged board with depth - 1, the next player and one more
\* pass, and returns the value of that call.
C7_PassContinues ==
    LET f == last.node
    IN  /\ (last.caller = "minimax" /\ f.pc \in {"enter", "test"}
               /\ PassCase(f, last.pre)) =>
              /\ last.op \in {"valid_moves", "pass"}
              /\ last.op = "pass" =>
                    /\ Len(stack) >= 2
                    /\ stack[Len(stack) - 1] = [f EXCEPT !.pc = "passed"]
                    /\ Top.pc = "enter"
                    /\ Top.depth = f.depth - 1
                    /\ Top.current_player
                          = (f.current_player + 1) % f.num_players
                    /\ Top.turns_passed = f.turns_passed + 1
                    /\ Top.maximizing_player = f.maximizing_player
                    /\ BoardOf(Top.b) = last.pre
                    /\ BoardOf(f.b) = last.pre
        /\ last.op = "pass_return" =>
              /\ PassCase(f, last.pre)
              /\ f.pc = "passed"
              /\ last.value # None
              /\ ret = last.value

\* a second pass in a row
C7_Witness ==
    /\ last.op = "pass"
    /\ last.node.turns_passed = 1
    /\ Top.turns_passed = 2

\* C8: at a node with legal moves there is one recursive call per move of
\* valid_moves, in its order, each with depth - 1, the next player and no
\* pass counted; the value returned is the maximum of the values of these
\* calls when the current player is the maximizing player and their
\* minimum otherwise.
C8_ExpansionAggregates ==
    LET f == last.node
    IN  /\ last.op = "valid_moves" /\ last.caller = "minimax" =>
              Top.valid_moves = valid_moves(last.pre, f.current_player)
        /\ last.op = "move" =>
              /\ f.valid_moves # << >>
              /\ <<last.row, last.column>>
                    = f.valid_moves[Len(f.evals) + 1]
              /\ last.player = f.current_player
              /\ Top.pc = "enter"
              /\ Top.depth = f.depth - 1
              /\ Top.current_player
                    = (f.current_player + 1) % f.num_players
              /\ Top.turns_passed = 0
              /\ Top.maximizing_player = f.maximizing_player
        /\ last.op = "undo" =>
              Top.evals = Append(f.evals, last.value[1])
        /\ last.op = "return" =>
              /\ Len(f.evals) = Len(f.valid_moves)
              /\ f.evals # << >>
              /\ ret = Some(IF f.current_player = f.maximizing_player
                            THEN SeqMax(f.evals) ELSE SeqMin(f.evals))

\* a node of another player than the maximizing one returned the minimum
\* of values that differ
C8_Witness ==
    /\ last.op = "return"
    /\ last.node.current_player # last.node.maximizing_player
    /\ Len(last.node.evals) >= 2
    /\ SeqMin(last.node.evals) < SeqMax(last.node.evals)

\* the reference search of C15 at the node of record f on grid b: the base
\* case, the pass rule, the order of the moves and the aggregation are
\* those of minimax, and every move is placed on its own copy of b
RECURSIVE RefValue(_, _)
RefValue(b, f) ==
    IF IsTerminal(f) THEN BaseValue(f, b)
    ELSE LET moves == valid_moves(b, f.current_player)
         IN  IF moves = << >> THEN RefValue(b, PassCall(f, 0))
             ELSE LET child(i) ==
                          RefValue(place(b, moves[i][1], moves[i][2],
                                         f.current_player).board,
                                   MoveCall(f))
                      values == {child(i) : i \in DOMAIN moves}
                  IN  IF f.current_player = f.maximizing_player
                      THEN CHOOSE m \in values : \A x \in values : x <= m
                      ELSE CHOOSE m \in values : \A x \in values : m <= x

\* C15: the value minimax returns is the value of the reference search
\* started with the same arguments on the same grid.
C15_EqualsCopyingSearch ==
    SearchDone => ret = Some(RefValue(root.board, root.frame))

\* C16: in a call of minimax with depth D >= 0, the outermost activation
\* has depth D, every recursive call, pass or move, has the depth of its
\* caller minus one, no activation has a negative depth, at most D
\* recursive calls are nested, and the call returns.
C16_SearchTerminates ==
    /\ [](/\ root.frame.depth >= 0
          /\ stack # << >> => stack[1].depth = root.frame.depth
          /\ \A k \in 2 .. Len(stack) :
                stack[k].depth = stack[k - 1].depth - 1
          /\ \A k \in DOMAIN stack : stack[k].depth >= 0
          /\ Len(stack) <= root.frame.depth + 1)
    /\ <>SearchDone

\* a search of depth 3 or more with as many nested recursive calls as its
\* depth, a pass call among them
C16_Witness ==
    /\ root.frame.depth >= 3
    /\ Len(stack) = root.frame.depth + 1
    /\ Top.depth = 0
    /\ \E k \in DOMAIN stack : stack[k].own

\* the player k places before player in the rotation of n players
PlayerBefore(player, k, n) == (player + n * k - k) % n

\* the number of players immediately before player in the rotation, at most
\* n of them, that have no valid move on grid b
StuckBefore(b, player, n) ==
    LET stuck_from[k \in 1 .. (n + 1)] ==
            IF k > n THEN 0
            ELSE IF has_valid_move(b, PlayerBefore(player, k, n)) THEN 0
            ELSE 1 + stuck_from[k + 1]
    IN  stuck_from[1]

\* C17 as stated: when a node is entered, turns_passed is the number of
\* players immediately before the current player in the rotation that
\* have no legal move on the node's board, and it is at most the number
\* of players.
C17_CounterCountsStuckPlayers ==
    (stack # << >> /\ Top.pc = "enter") =>
        /\ Top.turns_passed
              = StuckBefore(BoardOf(Top.b), Top.current_player,
                            Top.num_players)
        /\ Top.turns_passed <= Top.num_players

\* the number of activations right below the innermost one that made a
\* pass call and wait for it
PassesBelow(st) ==
    LET below[j \in 0 .. Len(st)] ==
            IF j = 0 THEN 0
            ELSE IF st[j].pc = "passed" THEN 1 + below[j - 1]
            ELSE 0
    IN  IF st = << >> THEN 0 ELSE below[Len(st) - 1]

\* C17 amended: when a node is entered, turns_passed is the number of pass
\* calls made in a row right before it (none at the root and after a
\* move), that many players immediately before the current player in the
\* rotation have no legal move on the node's board, and turns_passed is at
\* most the number of players; when the search stops at a node with depth
\* left, turns_passed is the number of players and no player has a legal
\* move on the node's board.
C17_CounterCountsPasses ==
    /\ (stack # << >> /\ Top.pc = "enter") =>
          /\ Top.turns_passed = PassesBelow(stack)
          /\ \A k \in 1 .. Top.turns_passed :
                ~has_valid_move(BoardOf(Top.b),
                                PlayerBefore(Top.current_player, k,
                                             Top.num_players))
          /\ Top.turns_passed <= Top.num_players
    /\ (last.op = "base" /\ last.node.depth > 0) =>
          /\ last.node.turns_passed = last.node.num_players
          /\ \A p \in Players : ~has_valid_move(last.pre, p)

\* the search stopped at a node entered with depth left after as many
\* passes in a row as there are players
C17_Witness ==
    /\ last.op = "base"
    /\ last.node.depth > 0
    /\ last.node.turns_passed = last.node.num_players

\* C11: every placement the search applies is accepted by the legality
\* check on the grid as it stands when the placement is applied.
C11_SearchMovesLegal == last.op = "move" => last.valid

----------------------------------------------------------------------------
(* Claims about the board under its callers and under the search, under    *)
(* SpecBoth *)

\* every cell occupied on grid old is occupied on grid new, the cells of
\* the set except left aside (rows that did not change need no look)
KeepsOccupied(old, new, except) ==
    \A r \in RowIdx :
        \/ old[r] = new[r]
        \/ \A c \in ColIdx :
              (old[r][c] # EMPTY /\ new[r][c] = EMPTY) => <<r, c>> \in except

\* C13: no step empties an occupied cell of the caller's board or of a
\* copy the search works on, except the undo step of the search, which
\* empties the cell it placed; after a call of place with in-bounds
\* coordinates, by a caller or by the search, the target is occupied as
\* well.
C13_OnlyUndoEmpties ==
    [][LET undone == IF last'.op = "undo"
                     THEN {<<last'.row, last'.column>>} ELSE {}
       IN  /\ KeepsOccupied(board, board', undone)
           /\ \A id \in DOMAIN copies \cap DOMAIN copies' :
                 KeepsOccupied(copies[id], copies'[id], undone)
           /\ (/\ last'.op \in {"place", "move"}
               /\ <<last'.row, last'.column>> \in Cells) =>
                  LET id == IF last'.op = "move" THEN last'.node.b ELSE 0
                      post == IF id = 0 THEN board' ELSE copies'[id]
                  IN  At(post, <<last'.row, last'.column>>) # EMPTY
      ]_vars

\* after a turn of the game on the seeded board, place was called on a
\* taken square
C13_Witness ==
    /\ phase = "play"
    /\ nturns >= 1
    /\ last.op = "place"
    /\ last.caller = "api"
    /\ <<last.row, last.column>> \in Cells
    /\ At(last.pre, <<last.row, last.column>>) # EMPTY

=============================================================================
